---- MODULE Spec2Model ----
(***************************************************************************)
(* A model of the form-state engine of @gapu/formix: createForm (state,    *)
(* undo/redo history, asynchronous re-validation) from src/src/index.tsx   *)
(* and the path accessor (get / set) and comparator (isEqual) from         *)
(* src/src/helpers.tsx.                                                    *)
(*                                                                         *)
(* JavaScript objects have identity and are shared by reference, so the    *)
(* model keeps a heap: a sequence of containers, an address being an       *)
(* index into it.  A value is a scalar or a reference to a container.      *)
(* A path string is represented by the result of path.split('.'), which    *)
(* is a bijection between strings and non-empty sequences of dot-free      *)
(* segments: the empty string is <<"">>.                                   *)
(***************************************************************************)
EXTENDS Integers, Sequences, FiniteSets, TLC

VARIABLES
    heap,          \* the JavaScript heap: Seq of containers
    initialState,  \* props.initialState (a value)
    undoLimit,     \* props.undoLimit ?? defaultUndoLimit
    state,         \* the state signal (a value)
    undoStack,     \* the undoStack signal: Seq of HistoryEntry
    redoStack,     \* the redoStack signal: Seq of HistoryEntry
    errors,        \* the errors signal: Seq of FormixError
    isValidating,  \* the isValidating signal
    inflight,      \* pending safeParseAsync promises, in the order started
    issued,        \* number of revalidate() calls made so far
    thrown,        \* the exception the last call raised to its caller
    initialTree,   \* the structure props.initialState had when createForm ran
    trace,         \* the calls made on the form so far, with their outcome
    isSubmitting,  \* the isSubmitting signal
    submits,       \* the submit() calls made so far, each with its position
    fieldMetas,    \* the fieldMetas signal: the meta record of each path written
    fn             \* a helper called on its own: its arguments, then its result

vars == <<heap, initialState, undoLimit, state, undoStack, redoStack, errors,
          isValidating, inflight, issued, thrown, initialTree, trace, isSubmitting,
          submits, fieldMetas, fn>>

(***************************************************************************)
(* Bounds of the model.                                                    *)
(***************************************************************************)
MaxOps == 3
MaxOpsHistory == 8
MaxInFlight == 2
MaxInFlightHistory == 1
MaxUndoLimit == 2
MaxSteps == 2
HistoryUndoLimit == 3
MaxOpsSteps == 4
MaxOpsSubmit == 4
MaxOpsField == 3
MaxArrayLen == 3
MaxOpsArrayField == 3
MaxOpsValidate == 4
MaxPushes == 3
MaxHistorySize == 3
MaxOpsManager == 5
MaxOpsDebounced == 4
MaxOpsMeta == 3
MaxInFlightPush == 4

(***************************************************************************)
(* Values.                                                                 *)
(***************************************************************************)
Num(n) == [t |-> "num", n |-> n]
Undef == [t |-> "undef", n |-> 0]
Null == [t |-> "null", n |-> 0]
Ref(a) == [t |-> "ref", n |-> a]

NoFields == [s \in {} |-> Undef]
EmptyObj == [kind |-> "obj", len |-> 0, f |-> NoFields]
EmptyArr == [kind |-> "arr", len |-> 0, f |-> NoFields]

\* createSignal<Record<string, FieldMetaState>>({}): no path has a meta
NoMetas == [p \in {} |-> 0]

\* typeof v === 'object' (true of null as well)
TypeofObject(v) == v.t \in {"ref", "null"}

(***************************************************************************)
(* Path segments.  The alphabet is finite, so the string tests of the code *)
(* are tables over it.                                                     *)
(***************************************************************************)
Digits == <<"0", "1", "2", "3">>
Segs == {"a", "b", "c", "01", "", " "} \cup {Digits[i] : i \in DOMAIN Digits}

\* String(i) for an array index i
IdxSeg(i) == Digits[i + 1]

\* a canonical array index ("01" is an ordinary property name)
IsIndex(seg) == \E i \in DOMAIN Digits : Digits[i] = seg

\* /^\d+$/.test(key)
IsDigits(seg) == IsIndex(seg) \/ seg = "01"

\* Number.parseInt(key, 10), for a key of digits
ParseInt(seg) == IF seg = "01" THEN 1 ELSE CHOOSE i \in 0..(Len(Digits) - 1) : Digits[i + 1] = seg

\* isNaN(Number(segment)): Number("") and Number(" ") are 0
NumberIsNaN(seg) == seg \in {"a", "b", "c"}

\* path.trim() === ""
TrimIsEmpty(path) == path \in {<<"">>, <<" ">>}

Max(a, b) == IF a >= b THEN a ELSE b
Min(a, b) == IF a <= b THEN a ELSE b

(***************************************************************************)
(* Property read and write on a container.                                 *)
(***************************************************************************)
\* key in o
HasKey(o, key) == key \in DOMAIN o.f

\* o[key]
Prop(o, key) == IF key \in DOMAIN o.f THEN o.f[key] ELSE Undef

\* o[key] = v; a write to an index of an array extends its length
Put(o, key, v) ==
    [kind |-> o.kind,
     len |-> IF o.kind = "arr" /\ IsIndex(key) THEN Max(o.len, ParseInt(key) + 1)
             ELSE o.len,
     f |-> [s \in DOMAIN o.f \cup {key} |-> IF s = key THEN v ELSE o.f[s]]]

\* Array.isArray(obj) ? [...obj] : { ...obj }
\* the spread of an array copies indices 0..length-1 (a hole reads undefined)
ShallowCopy(o) ==
    IF o.kind = "arr"
    THEN [kind |-> "arr", len |-> o.len,
          f |-> [s \in {IdxSeg(i) : i \in 0..(o.len - 1)} |-> Prop(o, s)]]
    ELSE o

(***************************************************************************)
(* The structure a value has in a heap, as a tree: what a deep comparison  *)
(* or a deep copy of it would see.                                         *)
(***************************************************************************)
RECURSIVE Tree(_, _)
Tree(h, v) ==
    IF v.t = "ref"
    THEN LET o == h[v.n]
         IN [t |-> o.kind, n |-> o.len, f |-> [s \in DOMAIN o.f |-> Tree(h, o.f[s])]]
    ELSE [t |-> v.t, n |-> v.n, f |-> NoFields]

(***************************************************************************)
(* helpers.tsx: isEqual                                                    *)
(***************************************************************************)
\* a comparison of identity alone
isIdentical(h, a, b) == a = b

RECURSIVE isEqual(_, _, _)
isEqual(h, a, b) ==
    IF a = b THEN TRUE                                      \* a === b
    ELSE IF a.t \in {"null", "undef"} \/ b.t \in {"null", "undef"} THEN FALSE
    ELSE IF a.t # b.t THEN FALSE                            \* typeof a !== typeof b
    ELSE IF a.t # "ref" THEN FALSE                          \* scalars that differ
    ELSE LET x == h[a.n]
             y == h[b.n]
         IN IF x.kind = "arr" /\ y.kind = "arr"
            THEN /\ x.len = y.len
                 /\ \A i \in 0..(x.len - 1) :
                        isEqual(h, Prop(x, IdxSeg(i)), Prop(y, IdxSeg(i)))
            ELSE IF x.kind = "obj" /\ y.kind = "obj"
            THEN /\ Cardinality(DOMAIN x.f) = Cardinality(DOMAIN y.f)
                 /\ \A key \in DOMAIN x.f :
                        /\ key \in DOMAIN y.f
                        /\ isEqual(h, x.f[key], y.f[key])
            ELSE FALSE

(***************************************************************************)
(* helpers.tsx: get                                                        *)
(***************************************************************************)
\* result?.[key]
OptProp(h, result, key) ==
    IF result.t = "ref" THEN Prop(h[result.n], key) ELSE Undef

RECURSIVE GetWalk(_, _, _, _)
GetWalk(h, result, keys, i) ==
    IF i > Len(keys) THEN [found |-> TRUE, value |-> result]
    ELSE LET key == keys[i]
         IN IF result.t = "ref" /\ h[result.n].kind = "arr" /\ IsDigits(key)
            THEN GetWalk(h, Prop(h[result.n], IdxSeg(ParseInt(key))), keys, i + 1)
            ELSE IF result.t = "ref" /\ h[result.n].kind = "obj"
            THEN GetWalk(h, Prop(h[result.n], key), keys, i + 1)
            ELSE [found |-> FALSE, value |-> Undef]

get(h, obj, path) ==
    IF path = <<"">> THEN obj
    ELSE LET keys == SubSeq(path, 1, Len(path) - 1)
             lastKey == path[Len(path)]
         IN IF lastKey = "" THEN obj
            ELSE LET w == GetWalk(h, obj, keys, 1)
                 IN IF w.found THEN OptProp(h, w.value, lastKey) ELSE Undef

(***************************************************************************)
(* helpers.tsx: set.  The result is the heap after the call (allocations   *)
(* and in-place writes included), the value returned and the error thrown. *)
(***************************************************************************)
\* a findIndex that reports the last empty key
lastEmptyKeyIndex(keys) ==
    IF \A i \in DOMAIN keys : keys[i] # "" THEN -1
    ELSE (CHOOSE i \in DOMAIN keys : keys[i] = "" /\ \A j \in (i + 1)..Len(keys) : keys[j] # "") - 1

\* keys.findIndex(key => key === '')
emptyKeyIndex(keys) ==
    IF \A i \in DOMAIN keys : keys[i] # "" THEN -1
    ELSE (CHOOSE i \in DOMAIN keys : keys[i] = "" /\ \A j \in 1..(i - 1) : keys[j] # "") - 1

\* an intermediate that is always a mapping
NewIntermediateObj(nextSegment) == EmptyObj

\* nextSegment !== undefined && !isNaN(Number(nextSegment)) ? [] : {}
NewIntermediate(nextSegment) == IF ~NumberIsNaN(nextSegment) THEN EmptyArr ELSE EmptyObj

RECURSIVE SetWalk(_, _, _, _, _)
SetWalk(h, current, keys, i, value) ==
    IF i < Len(keys)
    THEN LET segment == keys[i]
             nextSegment == keys[i + 1]
             o == h[current]
             fresh == Len(h) + 1
         IN IF ~HasKey(o, segment)
            THEN SetWalk([Append(h, NewIntermediate(nextSegment))
                             EXCEPT ![current] = Put(o, segment, Ref(fresh))],
                         fresh, keys, i + 1, value)
            ELSE IF ~TypeofObject(o.f[segment])
            THEN SetWalk([Append(h, EmptyObj) EXCEPT ![current] = Put(o, segment, Ref(fresh))],
                         fresh, keys, i + 1, value)
            ELSE IF o.f[segment].t = "null"
            THEN [heap |-> h, err |-> "TypeError"]          \* current = null
            ELSE SetWalk(h, o.f[segment].n, keys, i + 1, value)
    ELSE LET lastSegment == keys[Len(keys)]
             o == h[current]
         IN IF o.kind = "arr" /\ NumberIsNaN(lastSegment)
            THEN [heap |-> h, err |-> "InvalidPath"]
            ELSE [heap |-> [h EXCEPT ![current] = Put(o, lastSegment, value)], err |-> "none"]

set(h, obj, path, value) ==
    IF obj.t # "ref" THEN [heap |-> h, value |-> obj, err |-> "none", at |-> -1]
    ELSE IF path = <<"">> THEN [heap |-> h, value |-> obj, err |-> "none", at |-> -1]
    ELSE IF emptyKeyIndex(path) # -1
    THEN [heap |-> h, value |-> Undef, err |-> "InvalidPath", at |-> emptyKeyIndex(path)]
    ELSE LET result == Len(h) + 1
             w == SetWalk(Append(h, ShallowCopy(h[obj.n])), result, path, 1, value)
         IN [heap |-> w.heap, value |-> Ref(result), err |-> w.err, at |-> -1]

(***************************************************************************)
(* Array.prototype.slice(start, end) on a sequence (0-based, end excluded, *)
(* a negative index counts from the end; -0 is 0).                         *)
(***************************************************************************)
RelIndex(k, n) == IF k < 0 THEN Max(n + k, 0) ELSE Min(k, n)

Slice(s, start, end) ==
    LET from == RelIndex(start, Len(s))
        to == RelIndex(end, Len(s))
    IN SubSeq(s, from + 1, to)

\* s.slice(start)
SliceFrom(s, start) == Slice(s, start, Len(s))

RECURSIVE Reverse(_)
Reverse(s) == IF s = <<>> THEN <<>> ELSE Append(Reverse(Tail(s)), Head(s))

RemoveAt(s, i) == SubSeq(s, 1, i - 1) \o SubSeq(s, i + 1, Len(s))

(***************************************************************************)
(* Object literals written by the caller.  A literal is a tree; evaluating *)
(* it allocates its containers, innermost first.                           *)
(***************************************************************************)
SegOrder == <<"a", "b", "c", "0", "1", "2", "3", "01", " ", "">>

LitNum(n) == [t |-> "num", n |-> n, f |-> NoFields]
LitUndef == [t |-> "undef", n |-> 0, f |-> NoFields]
LitNull == [t |-> "null", n |-> 0, f |-> NoFields]
\* the string that writes the number n in digits
LitStr(n) == [t |-> "str", n |-> n, f |-> NoFields]
LitObj(fields) == [t |-> "obj", n |-> 0, f |-> fields]
LitArr(elems) ==
    [t |-> "arr", n |-> Len(elems), f |-> [s \in {IdxSeg(i - 1) : i \in DOMAIN elems} |->
                                             elems[ParseInt(s) + 1]]]

RECURSIVE Alloc(_, _)
RECURSIVE AllocFields(_, _, _, _)
AllocFields(h, tr, i, acc) ==
    IF i > Len(SegOrder) THEN [heap |-> h, f |-> acc]
    ELSE IF SegOrder[i] \notin DOMAIN tr.f THEN AllocFields(h, tr, i + 1, acc)
    ELSE LET r == Alloc(h, tr.f[SegOrder[i]])
         IN AllocFields(r.heap, tr, i + 1,
                [s \in DOMAIN acc \cup {SegOrder[i]} |->
                    IF s = SegOrder[i] THEN r.value ELSE acc[s]])

Alloc(h, tr) ==
    IF tr.t \in {"obj", "arr"}
    THEN LET r == AllocFields(h, tr, 1, NoFields)
         IN [heap |-> Append(r.heap, [kind |-> tr.t, len |-> tr.n, f |-> r.f]),
             value |-> Ref(Len(r.heap) + 1)]
    ELSE [heap |-> h, value |-> [t |-> tr.t, n |-> tr.n]]

(***************************************************************************)
(* The schema (an external collaborator): every number must be at least    *)
(* MinValid, and undefined or null is an issue.  safeParseAsync reads the  *)
(* structure the state has when it is called; an issue carries the path as *)
(* a list of keys (strings) and indices (numbers).                         *)
(***************************************************************************)
MinValid == 2

KeyElem(s) == [key |-> s, idx |-> -1]
IdxElem(i) == [key |-> "", idx |-> i]

RECURSIVE Issues(_, _)
RECURSIVE IssuesOver(_, _, _)
IssuesOver(tr, prefix, i) ==
    IF i > Len(SegOrder) THEN <<>>
    ELSE LET s == SegOrder[i]
         IN (IF s \in DOMAIN tr.f
             THEN Issues(tr.f[s], Append(prefix, IF tr.t = "arr" /\ IsIndex(s)
                                                 THEN IdxElem(ParseInt(s))
                                                 ELSE KeyElem(s)))
             ELSE <<>>) \o IssuesOver(tr, prefix, i + 1)

Issues(tr, prefix) ==
    IF tr.t = "num"
    THEN IF tr.n < MinValid THEN <<[path |-> prefix, message |-> "too_small"]>> ELSE <<>>
    ELSE IF tr.t = "undef" THEN <<[path |-> prefix, message |-> "Required"]>>
    ELSE IF tr.t = "null" THEN <<[path |-> prefix, message |-> "invalid_type"]>>
    ELSE IssuesOver(tr, prefix, 1)

\* props.schema.safeParseAsync(state()): the issues found (none: success)
SafeParse(h, st) == Issues(Tree(h, st), <<>>)

(***************************************************************************)
(* helpers.tsx: formatZodIssues.  e.path.join("."): a number is written in *)
(* digits, and the empty list joins to the empty string.                   *)
(***************************************************************************)
Join(zpath) ==
    IF zpath = <<>> THEN <<"">>
    ELSE [i \in DOMAIN zpath |-> IF zpath[i].idx >= 0 THEN IdxSeg(zpath[i].idx)
                                  ELSE zpath[i].key]

formatZodIssues(issues) ==
    [i \in DOMAIN issues |-> [path |-> Join(issues[i].path), message |-> issues[i].message]]

(***************************************************************************)
(* index.tsx: createForm                                                   *)
(***************************************************************************)
\* helpers: getUpdatedValue(prev, update).  An update is a literal the
\* caller writes (evaluated before the call) or a value the caller holds.
getUpdatedValue(h, prev, update) ==
    IF update.kind = "lit" THEN Alloc(h, update.tree)
    ELSE [heap |-> h, value |-> update.value]

UpdateLit(tr) == [kind |-> "lit", tree |-> tr, value |-> Undef]
UpdateVal(v) == [kind |-> "val", tree |-> LitUndef, value |-> v]

\* revalidate(), up to its await: the promise joins those in flight
\* a validation whose data is the state the form began with, whatever the
\* state is now
PendingInitial(h, st) ==
    [token |-> issued + 1, issues |-> SafeParse(h, st), data |-> initialTree]

\* (safeParseAsync is given state() as it is at the call; its result holds
\* the issues, or as data what the schema makes of that state)
Pending(h, st) == [token |-> issued + 1, issues |-> SafeParse(h, st), data |-> Tree(h, st)]

Revalidate(h, st) ==
    /\ isValidating' = TRUE
    /\ inflight' = Append(inflight, Pending(h, st))
    /\ issued' = issued + 1

\* a revalidate() on the state as it is, where the code starts none
RevalidateAnyway == Revalidate(heap, state)

NoRevalidate == UNCHANGED <<isValidating, inflight, issued>>

\* no helper is being called on its own
NoCall == [op |-> "none"]

\* one call on the form, as the trace records it
Call(op, path, steps, accepted, err, h) ==
    [op |-> op, path |-> path, steps |-> steps, accepted |-> accepted, err |-> err,
     before |-> Tree(heap, state), after |-> Tree(h, state'),
     undoBefore |-> Len(undoStack), redoBefore |-> Len(redoStack)]

\* createForm: the state after construction, the first revalidate() started
Created(lit, limit) ==
    LET r == Alloc(<<>>, lit)
    IN /\ heap = r.heap
       /\ initialState = r.value
       /\ state = r.value
       /\ undoLimit = limit
       /\ undoStack = <<>>
       /\ redoStack = <<>>
       /\ errors = <<>>
       /\ isValidating = TRUE
       /\ inflight = <<[token |-> 1, issues |-> SafeParse(r.heap, r.value),
                        data |-> Tree(r.heap, r.value)]>>
       /\ issued = 1
       /\ thrown = "none"
       /\ initialTree = Tree(r.heap, r.value)
       /\ trace = <<>>
       /\ isSubmitting = FALSE
       /\ submits = <<>>
       /\ fieldMetas = NoMetas
       /\ fn = NoCall

\* an undo stack that is appended to and never trimmed
UndoStackUntrimmed(prev, entry, limit) == Append(prev, entry)

\* a redo stack that a mutation leaves as it was
RedoStackKept(prev) == prev

\* an undo stack that a mutation is not recorded in
UndoStackNotPushed(prev, entry, limit) == prev

\* setUndoStack(prev => [...prev, entry].slice(-undoLimit))
UndoStackAfterSet(prev, entry, limit) == SliceFrom(Append(prev, entry), -limit)

\* setRedoStack([])
RedoStackAfterSet(prev) == <<>>

\* setState(path, update)
SetStateCall(op, path, update) ==
    LET currentState == state
        currentValue == IF TrimIsEmpty(path) THEN currentState
                        ELSE get(heap, currentState, path)
        u == getUpdatedValue(heap, currentValue, update)
        nextValue == u.value
        entry == [path |-> path, value |-> nextValue, prevValue |-> currentValue]
        r == IF TrimIsEmpty(path) THEN [heap |-> u.heap, value |-> nextValue, err |-> "none"]
             ELSE set(u.heap, state, path, nextValue)
    IN IF nextValue = currentValue
       THEN /\ UNCHANGED <<heap, state, undoStack, redoStack>>
            /\ NoRevalidate
            /\ thrown' = "none"
            /\ trace' = Append(trace, Call(op, path, 0, FALSE, "none", heap))
       ELSE /\ undoStack' = UndoStackAfterSet(undoStack, entry, undoLimit)
            /\ redoStack' = RedoStackAfterSet(redoStack)
            /\ heap' = r.heap
            /\ thrown' = r.err
            /\ IF r.err = "none"
               THEN /\ state' = r.value
                    /\ Revalidate(r.heap, r.value)
               ELSE /\ state' = state
                    /\ NoRevalidate
            /\ trace' = Append(trace, Call(op, path, 0, TRUE, r.err, r.heap))

SetState(path, update) ==
    /\ SetStateCall("setState", path, update)
    /\ UNCHANGED <<initialState, undoLimit, errors, initialTree, isSubmitting, submits, fieldMetas, fn>>

\* reset = () => setState("", props.initialState)
Reset ==
    /\ SetStateCall("reset", <<"">>, UpdateVal(initialState))
    /\ UNCHANGED <<initialState, undoLimit, errors, initialTree, isSubmitting, submits, fieldMetas, fn>>

\* entries.forEach(entry => newState = ...): the entries in the order applied
RECURSIVE ApplyEntries(_, _, _, _)
ApplyEntries(h, newState, entries, redoing) ==
    IF entries = <<>> THEN [heap |-> h, value |-> newState, err |-> "none"]
    ELSE LET entry == Head(entries)
             v == IF redoing THEN entry.value ELSE entry.prevValue
         IN IF TrimIsEmpty(entry.path)
            THEN ApplyEntries(h, v, Tail(entries), redoing)
            ELSE LET r == set(h, newState, entry.path, v)
                 IN IF r.err # "none" THEN r
                    ELSE ApplyEntries(r.heap, r.value, Tail(entries), redoing)

\* undoStack().slice(-steps)
UndoEntries(stack, steps) == SliceFrom(stack, -steps)

\* an undo stack that undo reads and does not pop
UndoStackKeptOnUndo(prev, steps) == prev

\* setUndoStack(prev => prev.slice(0, -steps))
UndoStackAfterUndo(prev, steps) == Slice(prev, 0, -steps)

\* setRedoStack(prev => [...entries.reverse(), ...prev].slice(0, undoLimit))
\* (entries was reversed in place for the forEach, and is reversed back here)
RedoStackAfterUndo(prev, entries, limit) == Slice(entries \o prev, 0, limit)

\* redoStack().slice(0, steps)
RedoEntries(stack, steps) == Slice(stack, 0, steps)

\* setRedoStack(prev => prev.slice(steps))
RedoStackAfterRedo(prev, steps) == SliceFrom(prev, steps)

\* setUndoStack(prev => [...prev, ...entries].slice(-undoLimit))
UndoStackAfterRedo(prev, entries, limit) == SliceFrom(prev \o entries, -limit)

\* undo(steps)
Undo(steps) ==
    LET entries == UndoEntries(undoStack, steps)
        r == ApplyEntries(heap, state, Reverse(entries), FALSE)
    IN /\ IF entries = <<>>
          THEN /\ UNCHANGED <<heap, state, undoStack, redoStack>>
               /\ NoRevalidate
               /\ thrown' = "none"
               /\ trace' = Append(trace, Call("undo", <<"">>, steps, FALSE, "none", heap))
          ELSE /\ heap' = r.heap
               /\ thrown' = r.err
               /\ IF r.err = "none"
                  THEN /\ state' = r.value
                       /\ undoStack' = UndoStackAfterUndo(undoStack, steps)
                       /\ redoStack' = RedoStackAfterUndo(redoStack, entries, undoLimit)
                       /\ Revalidate(r.heap, r.value)
                  ELSE /\ UNCHANGED <<state, undoStack, redoStack>>
                       /\ NoRevalidate
               /\ trace' = Append(trace, Call("undo", <<"">>, steps, TRUE, r.err, r.heap))
       /\ UNCHANGED <<initialState, undoLimit, errors, initialTree, isSubmitting, submits, fieldMetas, fn>>

\* redo(steps)
Redo(steps) ==
    LET entries == RedoEntries(redoStack, steps)
        r == ApplyEntries(heap, state, entries, TRUE)
    IN /\ IF entries = <<>>
          THEN /\ UNCHANGED <<heap, state, undoStack, redoStack>>
               /\ NoRevalidate
               /\ thrown' = "none"
               /\ trace' = Append(trace, Call("redo", <<"">>, steps, FALSE, "none", heap))
          ELSE /\ heap' = r.heap
               /\ thrown' = r.err
               /\ IF r.err = "none"
                  THEN /\ state' = r.value
                       /\ redoStack' = RedoStackAfterRedo(redoStack, steps)
                       /\ undoStack' = UndoStackAfterRedo(undoStack, entries, undoLimit)
                       /\ Revalidate(r.heap, r.value)
                  ELSE /\ UNCHANGED <<state, undoStack, redoStack>>
                       /\ NoRevalidate
               /\ trace' = Append(trace, Call("redo", <<"">>, steps, TRUE, r.err, r.heap))
       /\ UNCHANGED <<initialState, undoLimit, errors, initialTree, isSubmitting, submits, fieldMetas, fn>>

(***************************************************************************)
(* index.tsx: field metadata.  A meta is the record of six flags; an       *)
(* update is a meta the caller writes or a function of the meta there is.  *)
(***************************************************************************)
defaultFieldMetaState ==
    [dirty |-> FALSE, disabled |-> FALSE, loading |-> FALSE, readOnly |-> FALSE,
     show |-> TRUE, touched |-> FALSE]

\* getUpdatedValue(currentMeta, update), for the updates of a meta:
\* a meta, (prev) => ({...prev, touched: true}), (prev) => ({...prev, show: false})
getUpdatedMeta(prev, update) ==
    IF update.kind = "meta" THEN update.meta
    ELSE IF update.kind = "touch" THEN [prev EXCEPT !.touched = TRUE]
    ELSE [prev EXCEPT !.show = FALSE]

\* a record of metas that holds the meta written and no other
MetasReplaced(prev, path, next) == [p \in {path} |-> next]

\* setFieldMetas((prev) => ({...prev, [path]: next}))
MetasAfterSet(prev, path, next) ==
    [p \in DOMAIN prev \cup {path} |-> IF p = path THEN next ELSE prev[p]]

\* setFieldMeta(path, update)
SetFieldMeta(path, update) ==
    LET currentMeta == IF path \in DOMAIN fieldMetas THEN fieldMetas[path]
                       ELSE defaultFieldMetaState
        next == getUpdatedMeta(currentMeta, update)
    IN /\ fieldMetas' = MetasAfterSet(fieldMetas, path, next)
       /\ UNCHANGED <<heap, initialState, undoLimit, state, undoStack, redoStack, errors,
                      isValidating, inflight, issued, initialTree, isSubmitting, submits, fn>>
       /\ thrown' = "none"
       /\ trace' = Append(trace, Call("setFieldMeta", path, 0, TRUE, "none", heap))

\* canUndo(steps), canRedo(steps)
canUndo(steps) == Len(undoStack) >= steps
canRedo(steps) == Len(redoStack) >= steps

\* wasModified = () => !isEqual(state(), props.initialState)
wasModified == ~isEqual(heap, state, initialState)

\* useField(path).wasModified
FieldWasModified(path) ==
    LET currentState == get(heap, state, path)
        initial == get(heap, initialState, path)
    IN ~isEqual(heap, currentState, initial)

\* !v: undefined, null and 0 are falsy (as are "" and false)
Falsy(v) == v.t \in {"undef", "null"} \/ (v.t = "num" /\ v.n = 0)

\* useField(path).reset()
FieldReset(path) ==
    LET initialValue == get(heap, initialState, path)
    IN /\ IF Falsy(initialValue)
          THEN /\ UNCHANGED <<heap, state, undoStack, redoStack>>
               /\ NoRevalidate
               /\ thrown' = "none"
               /\ trace' = Append(trace, Call("fieldReset", path, 0, FALSE, "none", heap))
          ELSE SetStateCall("fieldReset", path, UpdateVal(initialValue))
       /\ UNCHANGED <<initialState, undoLimit, errors, initialTree, isSubmitting, submits, fieldMetas, fn>>

\* newArray.splice(start, deleteCount): the elements removed and those left
SpliceOut(arr, start, deleteCount) ==
    LET from == RelIndex(start, Len(arr))
        to == Min(from + Max(deleteCount, 0), Len(arr))
    IN [removed |-> SubSeq(arr, from + 1, to),
        rest |-> SubSeq(arr, 1, from) \o SubSeq(arr, to + 1, Len(arr))]

\* newArray.splice(start, 0, item)
SpliceIn(arr, start, item) ==
    LET at == RelIndex(start, Len(arr))
    IN SubSeq(arr, 1, at) \o <<item>> \o SubSeq(arr, at + 1, Len(arr))

\* useArrayField.move: the update function given to setValue, on the
\* elements of prev
MoveUpdate(prev, from, to) ==
    LET out == SpliceOut(prev, from, 1)
        removed == IF out.removed = <<>> THEN Undef ELSE out.removed[1]
    IN IF ~Falsy(removed) THEN SpliceIn(out.rest, to, removed) ELSE out.rest

\* an update applied to an array that has lost what it held
PushOntoEmpty(prev, item) == <<item>>

\* useArrayField.push: (prev) => [...prev, item]
PushUpdate(prev, item) == prev \o <<item>>

\* a filter that drops the element after the one asked for
RemoveNextUpdate(prev, index) ==
    [k \in 1..(Len(prev) - (IF index + 2 \in DOMAIN prev THEN 1 ELSE 0)) |->
        IF k < index + 2 THEN prev[k] ELSE prev[k + 1]]

\* useArrayField.remove: prev.filter((_, i) => i !== index)
RECURSIVE FilterNot(_, _, _)
FilterNot(prev, i, index) ==
    IF i >= Len(prev) THEN <<>>
    ELSE (IF i # index THEN <<prev[i + 1]>> ELSE <<>>) \o FilterNot(prev, i + 1, index)

RemoveUpdate(prev, index) == FilterNot(prev, 0, index)

\* useArrayField.insert
InsertUpdate(prev, index, item) == SpliceIn(prev, index, item)

\* newArray[index] = item, for an index >= 0: an index past the end
\* extends the array, the indices between reading undefined
ArrayPut(arr, index, item) ==
    [k \in 1..Max(Len(arr), index + 1) |->
        IF k = index + 1 THEN item ELSE IF k <= Len(arr) THEN arr[k] ELSE Undef]

\* newArray[index], for an index >= 0
ArrayAt(arr, index) == IF index + 1 \in DOMAIN arr THEN arr[index + 1] ELSE Undef

\* useArrayField.replace
ReplaceUpdate(prev, index, item) == ArrayPut(prev, index, item)

\* useArrayField.swap
SwapUpdate(prev, indexA, indexB) ==
    LET temp == ArrayAt(prev, indexA)
        first == ArrayPut(prev, indexA, ArrayAt(prev, indexB))
    IN ArrayPut(first, indexB, temp)

\* useArrayField.empty: setValue([])
EmptyUpdate(prev) == <<>>

\* submit(), up to its await: const validationResult = await revalidate()
\* (validationResult.data is what the schema makes of the state it is given)
Submit ==
    /\ submits' = Append(submits, [token |-> issued + 1, pos |-> "validating",
                                   calls |-> 0, data |-> Tree(heap, state),
                                   passed |-> LitUndef,
                                   outcome |-> "none"])
    /\ Revalidate(heap, state)
    /\ thrown' = "none"
    /\ UNCHANGED <<heap, initialState, undoLimit, state, undoStack, redoStack, errors,
                   initialTree, isSubmitting, fieldMetas, fn>>
    /\ trace' = Append(trace, Call("submit", <<"">>, 0, TRUE, "none", heap))

\* a submit() that goes on to the handler whatever the validation found
SubmitProceedsAlways(issues) == TRUE

\* if (!validationResult.success) return
SubmitProceeds(issues) == issues = <<>>

\* submit(), after its await, for the submit() call sub whose validation
\* found issues: it returns, or sets isSubmitting and calls props.onSubmit,
\* which throws at once (handler = "throws": the finally block runs and
\* submit() rejects) or returns a promise that submit() awaits
SubmitContinue(sub, validationResult, handler) ==
    IF ~SubmitProceeds(validationResult.issues)
    THEN [sub EXCEPT !.pos = "done", !.outcome = "resolved"]
    ELSE IF handler = "throws"
    THEN [sub EXCEPT !.pos = "done", !.outcome = "rejected", !.calls = @ + 1,
                     !.passed = validationResult.data]
    ELSE [sub EXCEPT !.pos = "handler", !.calls = @ + 1, !.passed = validationResult.data]

\* the submit() calls that await the validation with this token
Awaiting(token) ==
    {j \in DOMAIN submits : submits[j].token = token /\ submits[j].pos = "validating"}

\* revalidate(), from its await on: the promise inflight[i] resolves; a
\* submit() that awaits this revalidate() goes on right after it
ResolveValidationThen(i, handler) ==
    /\ i \in DOMAIN inflight
    /\ errors' = IF inflight[i].issues # <<>> THEN formatZodIssues(inflight[i].issues)
                 ELSE <<>>
    /\ isValidating' = FALSE
    /\ inflight' = RemoveAt(inflight, i)
    /\ submits' = [j \in DOMAIN submits |->
                      IF j \in Awaiting(inflight[i].token)
                      THEN SubmitContinue(submits[j], inflight[i], handler)
                      ELSE submits[j]]
    /\ isSubmitting' = IF \E j \in Awaiting(inflight[i].token) :
                              SubmitProceeds(inflight[i].issues)
                       THEN handler # "throws"      \* set true; finally sets false
                       ELSE isSubmitting
    /\ UNCHANGED <<heap, initialState, undoLimit, state, undoStack, redoStack, issued,
                   thrown, initialTree, trace, fieldMetas, fn>>

\* the same, with a handler that returns a promise
ResolveValidation(i) == ResolveValidationThen(i, "pending")

\* the promise props.onSubmit returned settles: finally { setIsSubmitting(false) }
\* and submit() resolves, or rejects with the handler's exception
HandlerSettles(j, how) ==
    /\ j \in DOMAIN submits
    /\ submits[j].pos = "handler"
    /\ submits' = [submits EXCEPT ![j].pos = "done", ![j].outcome = how]
    /\ isSubmitting' = FALSE
    /\ UNCHANGED <<heap, initialState, undoLimit, state, undoStack, redoStack, errors,
                   isValidating, inflight, issued, thrown, initialTree, trace, fieldMetas, fn>>

(***************************************************************************)
(* The form under arbitrary callers: nested states, path-scoped writes.    *)
(***************************************************************************)
InitialStates ==
    { LitNum(0),
      LitObj("a" :> LitObj("b" :> LitNum(1))),
      LitObj("a" :> LitArr(<<LitNum(1)>>)) }

Paths == { <<"">>, <<"a">>, <<"b">>, <<"a", "b">>, <<"b", "a">>, <<"a", "">> }

Updates == { UpdateLit(LitNum(2)), UpdateLit(LitObj("b" :> LitNum(1))) }

CanCall(maxOps, maxInFlight) == Len(trace) < maxOps /\ Len(inflight) < maxInFlight

Init == \E lit \in InitialStates, limit \in 0..MaxUndoLimit : Created(lit, limit)

Next ==
    \/ \E path \in Paths, update \in Updates :
          CanCall(MaxOps, MaxInFlight) /\ SetState(path, update)
    \/ \E steps \in 0..MaxSteps : CanCall(MaxOps, MaxInFlight) /\ Undo(steps)
    \/ \E steps \in 0..MaxSteps : CanCall(MaxOps, MaxInFlight) /\ Redo(steps)
    \/ CanCall(MaxOps, MaxInFlight) /\ Reset
    \/ \E i \in DOMAIN inflight : ResolveValidation(i)

Spec == Init /\ [][Next]_vars

(***************************************************************************)
(* The form as the history tests use it: a number as the whole state,      *)
(* replaced as a whole, and single-step undo and redo, over longer runs.   *)
(***************************************************************************)
HistoryUpdates == { UpdateLit(LitNum(n)) : n \in 1..3 }

InitHistory == \E limit \in 1..HistoryUndoLimit : Created(LitNum(0), limit)

NextHistory ==
    \/ \E update \in HistoryUpdates :
          CanCall(MaxOpsHistory, MaxInFlightHistory) /\ SetState(<<"">>, update)
    \/ CanCall(MaxOpsHistory, MaxInFlightHistory) /\ Undo(1)
    \/ CanCall(MaxOpsHistory, MaxInFlightHistory) /\ Redo(1)
    \/ \E i \in DOMAIN inflight : ResolveValidation(i)

SpecHistory == InitHistory /\ [][NextHistory]_vars

(***************************************************************************)
(* The same form with undo and redo of several steps at once.              *)
(***************************************************************************)
InitSteps == \E limit \in 1..MaxUndoLimit : Created(LitNum(0), limit)

NextSteps ==
    \/ \E update \in HistoryUpdates :
          CanCall(MaxOpsSteps, MaxInFlightHistory) /\ SetState(<<"">>, update)
    \/ \E steps \in 0..MaxSteps : CanCall(MaxOpsSteps, MaxInFlightHistory) /\ Undo(steps)
    \/ \E steps \in 0..MaxSteps : CanCall(MaxOpsSteps, MaxInFlightHistory) /\ Redo(steps)
    \/ \E i \in DOMAIN inflight : ResolveValidation(i)

SpecSteps == InitSteps /\ [][NextSteps]_vars

(***************************************************************************)
(* The form being edited and submitted: setState and submit() calls, with  *)
(* validations and submit handlers pending between them.                   *)
(***************************************************************************)
Handlers == {"pending", "throws"}
Settlements == {"resolved", "rejected"}

InitSubmit == \E n \in 1..2 : Created(LitNum(n), 1)

NextSubmit ==
    \/ \E update \in HistoryUpdates :
          CanCall(MaxOpsSubmit, MaxInFlight) /\ SetState(<<"">>, update)
    \/ CanCall(MaxOpsSubmit, MaxInFlight) /\ Submit
    \/ \E i \in DOMAIN inflight, handler \in Handlers : ResolveValidationThen(i, handler)
    \/ \E j \in DOMAIN submits, how \in Settlements : HandlerSettles(j, how)

SpecSubmit == InitSubmit /\ [][NextSubmit]_vars

(***************************************************************************)
(* A form of flat fields, written and reset through useField.              *)
(***************************************************************************)
FieldInitialStates ==
    { LitObj("a" :> LitNum(0) @@ "b" :> LitNum(1)),
      LitObj("a" :> LitNull @@ "b" :> LitNum(2)) }

FieldPaths == { <<"a">>, <<"b">> }

InitField == \E lit \in FieldInitialStates : Created(lit, 1)

NextField ==
    \/ \E path \in FieldPaths, update \in HistoryUpdates :
          CanCall(MaxOpsField, MaxInFlightHistory) /\ SetState(path, update)
    \/ \E path \in FieldPaths :
          CanCall(MaxOpsField, MaxInFlightHistory) /\ FieldReset(path)
    \/ \E i \in DOMAIN inflight : ResolveValidation(i)

SpecField == InitField /\ [][NextField]_vars

(***************************************************************************)
(* set called on its own: the arguments are drawn at the start (the root   *)
(* and the value are literals the caller wrote), then set is applied.      *)
(***************************************************************************)
\* no form has been created
NoForm ==
    /\ heap = <<>>
    /\ initialState = Undef
    /\ state = Undef
    /\ undoLimit = 0
    /\ undoStack = <<>>
    /\ redoStack = <<>>
    /\ errors = <<>>
    /\ isValidating = FALSE
    /\ inflight = <<>>
    /\ issued = 0
    /\ thrown = "none"
    /\ initialTree = LitUndef
    /\ trace = <<>>
    /\ isSubmitting = FALSE
    /\ submits = <<>>
    /\ fieldMetas = NoMetas

formVars == <<heap, initialState, undoLimit, state, undoStack, redoStack, errors,
              isValidating, inflight, issued, thrown, initialTree, trace, isSubmitting,
              submits, fieldMetas>>

SetRoots ==
    { LitObj("a" :> LitNum(1)),
      LitObj("a" :> LitObj("b" :> LitNum(1))),
      LitObj("a" :> LitArr(<<LitNum(1)>>)),
      LitObj("a" :> LitNull),
      LitObj("a" :> LitUndef),
      LitArr(<<LitNum(1), LitObj("a" :> LitNum(2))>>),
      LitNum(42) }

SetPaths ==
    { <<"">>, <<"a">>, <<"b">>, <<"0">>, <<"3">>, <<"a", "b">>, <<"a", "0">>, <<"a", "2">>,
      <<"b", "0">>, <<"b", "2">>, <<"b", " ">>, <<"b", "a">>, <<"1", "a">>, <<"a", "b", "c">>,
      <<"a", "01", "b">>, <<"a", "", "b">>, <<"a", "", "", "b">>, <<"", "a">>, <<"a", "">>,
      <<" ">> }

SetValues == { LitNum(2), LitObj("c" :> LitNum(3)) }

InitSet ==
    /\ NoForm
    /\ \E root \in SetRoots, path \in SetPaths, value \in SetValues :
          LET r == Alloc(<<>>, root)
              v == Alloc(r.heap, value)
          IN fn = [op |-> "set", phase |-> "args", heap |-> v.heap, root |-> r.value,
                   path |-> path, value |-> v.value,
                   after |-> v.heap, result |-> Undef, err |-> "none", at |-> -1]

\* const result = set(root, path, value)
CallSet ==
    /\ fn.op = "set" /\ fn.phase = "args"
    /\ LET r == set(fn.heap, fn.root, fn.path, fn.value)
       IN fn' = [fn EXCEPT !.phase = "done", !.after = r.heap, !.result = r.value,
                           !.err = r.err, !.at = r.at]
    /\ UNCHANGED formVars

NextSet == CallSet

SpecSet == InitSet /\ [][NextSet]_vars

(***************************************************************************)
(* The update function of useArrayField.move on its own: an array and two  *)
(* indices in its range are drawn at the start, then the function is       *)
(* applied.                                                                *)
(***************************************************************************)
ArrayElems == { Num(0), Num(1), Num(2), Null }

Arrays == UNION { [1..n -> ArrayElems] : n \in 1..MaxArrayLen }

InitMove ==
    /\ NoForm
    /\ \E prev \in Arrays : \E from, to \in 0..(Len(prev) - 1) :
          fn = [op |-> "move", phase |-> "args", prev |-> prev, from |-> from, to |-> to,
                result |-> <<>>]

CallMove ==
    /\ fn.op = "move" /\ fn.phase = "args"
    /\ fn' = [fn EXCEPT !.phase = "done", !.result = MoveUpdate(fn.prev, fn.from, fn.to)]
    /\ UNCHANGED formVars

NextMove == CallMove

SpecMove == InitMove /\ [][NextMove]_vars

(***************************************************************************)
(* The other update functions of useArrayField on their own: an array,     *)
(* indices in its range and an item are drawn at the start; the function   *)
(* is applied, and then applied once more to its result.                   *)
(***************************************************************************)
ArrayOps == {"push", "remove", "insert", "replace", "swap", "empty"}

ArrayUpdate(name, prev, i, j, item) ==
    CASE name = "push" -> PushUpdate(prev, item)
      [] name = "remove" -> RemoveUpdate(prev, i)
      [] name = "insert" -> InsertUpdate(prev, i, item)
      [] name = "replace" -> ReplaceUpdate(prev, i, item)
      [] name = "swap" -> SwapUpdate(prev, i, j)
      [] name = "empty" -> EmptyUpdate(prev)

InitArray ==
    /\ NoForm
    /\ \E name \in ArrayOps, prev \in Arrays, item \in ArrayElems :
       \E i \in 0..(IF name = "insert" THEN Len(prev) ELSE Len(prev) - 1),
          j \in 0..(IF name = "swap" THEN Len(prev) - 1 ELSE 0) :
          fn = [op |-> "array", name |-> name, phase |-> "args", prev |-> prev,
                i |-> i, j |-> j, item |-> item, result |-> <<>>, again |-> <<>>]

CallArray ==
    /\ fn.op = "array" /\ fn.phase = "args"
    /\ fn' = [fn EXCEPT !.phase = "done",
                        !.result = ArrayUpdate(fn.name, fn.prev, fn.i, fn.j, fn.item)]
    /\ UNCHANGED formVars

CallArrayAgain ==
    /\ fn.op = "array" /\ fn.phase = "done"
    /\ fn.name \in {"swap", "replace", "empty"}      \* the indices are still in range
    /\ fn' = [fn EXCEPT !.phase = "twice",
                        !.again = ArrayUpdate(fn.name, fn.result, fn.i, fn.j, fn.item)]
    /\ UNCHANGED formVars

NextArray == CallArray \/ CallArrayAgain

SpecArray == InitArray /\ [][NextArray]_vars

(***************************************************************************)
(* get called on its own: a root (a literal, null, undefined or a number)  *)
(* and a path are drawn at the start, then get is applied.                 *)
(***************************************************************************)
GetRoots ==
    { LitObj("a" :> LitNum(1)),
      LitObj("a" :> LitObj("b" :> LitNum(1))),
      LitObj("a" :> LitArr(<<LitNum(1), LitObj("b" :> LitNum(2))>>)),
      LitArr(<<LitNum(1), LitObj("a" :> LitNum(2))>>),
      LitNull, LitUndef, LitNum(42) }

GetPaths ==
    { <<"">>, <<"a">>, <<"b">>, <<"0">>, <<"3">>, <<"a", "b">>, <<"a", "0">>, <<"a", "1", "b">>,
      <<"1", "a">>, <<"a", "b", "c">>, <<"a", "">>, <<"", "">>, <<"", "a">>, <<"a", "", "b">> }

InitGet ==
    /\ NoForm
    /\ \E root \in GetRoots, path \in GetPaths :
          LET r == Alloc(<<>>, root)
          IN fn = [op |-> "get", phase |-> "args", heap |-> r.heap, root |-> r.value,
                   path |-> path, result |-> Undef]

\* const result = get(root, path)
CallGet ==
    /\ fn.op = "get" /\ fn.phase = "args"
    /\ fn' = [fn EXCEPT !.phase = "done", !.result = get(fn.heap, fn.root, fn.path)]
    /\ UNCHANGED formVars

NextGet == CallGet

SpecGet == InitGet /\ [][NextGet]_vars

(***************************************************************************)
(* helpers.tsx: isFieldRequired.  A schema is the object zod builds: its   *)
(* class (k) and what it holds (f): the shape of a ZodObject, the element  *)
(* of a ZodArray, the innerType of a ZodOptional or a ZodNullable.         *)
(***************************************************************************)
NoSchemas == [s \in {} |-> 0]

ZString == [k |-> "ZodString", f |-> NoSchemas]
ZObject(shape) == [k |-> "ZodObject", f |-> shape]
ZArray(element) == [k |-> "ZodArray", f |-> ("element" :> element)]
ZOptional(inner) == [k |-> "ZodOptional", f |-> ("innerType" :> inner)]
ZNullable(inner) == [k |-> "ZodNullable", f |-> ("innerType" :> inner)]

\* isNaN(parseInt(part, 10)): parseInt reads the digits at the front of the
\* string and ignores what follows them
ParseIntIsNaN(part) == ~(IsDigits(part) \/ part = "1a")

\* variant.includes(x) is membership: variant is held as a set
isFieldRequiredCheck(currentSchema, variant) ==
    LET checkNullable == "nullable" \in variant
        checkOptional == "optional" \in variant
    IN IF checkNullable /\ checkOptional
       THEN ~(currentSchema.k = "ZodOptional" \/ currentSchema.k = "ZodNullable")
       ELSE IF checkNullable THEN ~(currentSchema.k = "ZodNullable")
       ELSE IF checkOptional THEN ~(currentSchema.k = "ZodOptional")
       ELSE TRUE

\* a walk that takes any part as an index of a ZodArray
RECURSIVE SchemaWalkAnyIndex(_, _, _)
SchemaWalkAnyIndex(currentSchema, parts, i) ==
    IF i > Len(parts) THEN [schema |-> currentSchema, err |-> "none"]
    ELSE LET part == parts[i]
         IN IF currentSchema.k = "ZodObject"
            THEN IF part \notin DOMAIN currentSchema.f
                 THEN [schema |-> currentSchema, err |-> "NoProperty"]
                 ELSE SchemaWalkAnyIndex(currentSchema.f[part], parts, i + 1)
            ELSE IF currentSchema.k = "ZodArray"
            THEN SchemaWalkAnyIndex(currentSchema.f["element"], parts, i + 1)
            ELSE [schema |-> currentSchema, err |-> "NotObjectOrArray"]

\* a walk that goes through a ZodOptional or a ZodNullable to its innerType
RECURSIVE SchemaWalkUnwrapping(_, _, _)
SchemaWalkUnwrapping(currentSchema, parts, i) ==
    IF i > Len(parts) THEN [schema |-> currentSchema, err |-> "none"]
    ELSE LET part == parts[i]
         IN IF currentSchema.k = "ZodObject"
            THEN IF part \notin DOMAIN currentSchema.f
                 THEN [schema |-> currentSchema, err |-> "NoProperty"]
                 ELSE SchemaWalkUnwrapping(currentSchema.f[part], parts, i + 1)
            ELSE IF currentSchema.k = "ZodArray"
            THEN IF ParseIntIsNaN(part)
                 THEN [schema |-> currentSchema, err |-> "InvalidIndex"]
                 ELSE SchemaWalkUnwrapping(currentSchema.f["element"], parts, i + 1)
            ELSE IF currentSchema.k \in {"ZodOptional", "ZodNullable"}
            THEN SchemaWalkUnwrapping(currentSchema.f["innerType"], parts, i)
            ELSE [schema |-> currentSchema, err |-> "NotObjectOrArray"]

\* for (const part of parts) { ... }
RECURSIVE SchemaWalk(_, _, _)
SchemaWalk(currentSchema, parts, i) ==
    IF i > Len(parts) THEN [schema |-> currentSchema, err |-> "none"]
    ELSE LET part == parts[i]
         IN IF currentSchema.k = "ZodObject"
            THEN IF part \notin DOMAIN currentSchema.f
                 THEN [schema |-> currentSchema, err |-> "NoProperty"]
                 ELSE SchemaWalk(currentSchema.f[part], parts, i + 1)
            ELSE IF currentSchema.k = "ZodArray"
            THEN IF ParseIntIsNaN(part)
                 THEN [schema |-> currentSchema, err |-> "InvalidIndex"]
                 ELSE SchemaWalk(currentSchema.f["element"], parts, i + 1)
            ELSE [schema |-> currentSchema, err |-> "NotObjectOrArray"]

\* the value returned (value), the error thrown (err) and the schema the
\* walk stood at when it ended (schema)
isFieldRequired(schema, path, variant) ==
    IF path = <<"">>
    THEN [value |-> isFieldRequiredCheck(schema, variant), err |-> "none", schema |-> schema]
    ELSE LET w == SchemaWalk(schema, path, 1)
         IN IF w.err # "none" THEN [value |-> FALSE, err |-> w.err, schema |-> w.schema]
            ELSE [value |-> isFieldRequiredCheck(w.schema, variant), err |-> "none",
                  schema |-> w.schema]

(***************************************************************************)
(* isFieldRequired called on its own: a schema, a path and the variants    *)
(* are drawn at the start, then the function is applied.                   *)
(***************************************************************************)
RequiredSchemas ==
    { ZObject("a" :> ZString),
      ZObject("a" :> ZOptional(ZString)),
      ZObject("a" :> ZNullable(ZString)),
      ZObject("a" :> ZNullable(ZOptional(ZString))),
      ZObject("a" :> ZOptional(ZNullable(ZString))),
      ZObject("a" :> ZObject("b" :> ZNullable(ZString))),
      ZObject("a" :> ZArray(ZObject("b" :> ZOptional(ZString)))),
      ZObject("a" :> ZOptional(ZObject("b" :> ZString))),
      ZArray(ZString),
      ZOptional(ZString),
      ZString }

RequiredPaths ==
    { <<"">>, <<"a">>, <<"b">>, <<"0">>, <<"a", "b">>, <<"a", "0">>, <<"a", "3">>, <<"a", "01">>,
      <<"a", "1a">>, <<"a", " ">>, <<"a", "">>, <<"a", "0", "b">>, <<"a", "3", "b">>,
      <<"a", "b", "0">> }

Variants == SUBSET {"nullable", "optional"}

InitRequired ==
    /\ NoForm
    /\ \E schema \in RequiredSchemas, path \in RequiredPaths, variant \in Variants :
          fn = [op |-> "isFieldRequired", phase |-> "args", schema |-> schema, path |-> path,
                variant |-> variant, result |-> FALSE, err |-> "none", resolved |-> ZString]

\* const result = isFieldRequired(schema, path, variant)
CallIsFieldRequired ==
    /\ fn.op = "isFieldRequired" /\ fn.phase = "args"
    /\ LET r == isFieldRequired(fn.schema, fn.path, fn.variant)
       IN fn' = [fn EXCEPT !.phase = "done", !.result = r.value, !.err = r.err,
                           !.resolved = r.schema]
    /\ UNCHANGED formVars

NextRequired == CallIsFieldRequired

SpecRequired == InitRequired /\ [][NextRequired]_vars

(***************************************************************************)
(* index.tsx: useField(path).errors() on its own: the issues of a          *)
(* validation and the path of the field are drawn at the start; the form's *)
(* errors() are the issues as formatZodIssues writes them.                 *)
(***************************************************************************)
\* the pairs (p, s) of distinct segments with s.startsWith(p), p not empty
ProperPrefixes == {<<"a", "ab">>, <<"0", "01">>, <<"1", "1a">>}

\* s.startsWith(p), for two segments
SegStartsWith(s, p) == p = "" \/ s = p \/ <<p, s>> \in ProperPrefixes

\* e.path.startsWith(path): the strings are the segments joined by ".",
\* and no segment holds a "."
StartsWith(epath, path) ==
    LET n == Len(path)
    IN /\ Len(epath) >= n
       /\ SubSeq(epath, 1, n - 1) = SubSeq(path, 1, n - 1)
       /\ SegStartsWith(epath[n], path[n])

RECURSIVE Filter(_, _)
Filter(s, path) ==
    IF s = <<>> THEN <<>>
    ELSE (IF StartsWith(Head(s).path, path) THEN <<Head(s)>> ELSE <<>>) \o Filter(Tail(s), path)

\* form.errors().filter((e) => e.path.startsWith(path))
FieldErrors(formErrors, path) == Filter(formErrors, path)

MaxIssues == 2

IssuePaths ==
    { <<>>, <<KeyElem("a")>>, <<KeyElem("ab")>>, <<KeyElem("b")>>, <<KeyElem("a"), KeyElem("b")>>,
      <<KeyElem("a"), IdxElem(0)>> }

IssueLists ==
    UNION { [1..n -> {[path |-> zp, message |-> "Required"] : zp \in IssuePaths}] :
              n \in 0..MaxIssues }

ErrorFieldPaths == { <<"a">>, <<"b">>, <<"a", "b">>, <<"a", "0">> }

InitFieldErrors ==
    /\ NoForm
    /\ \E issues \in IssueLists, path \in ErrorFieldPaths :
          fn = [op |-> "errors", phase |-> "args", errors |-> formatZodIssues(issues),
                path |-> path, result |-> <<>>]

\* const errors = useField(path).errors()
CallFieldErrors ==
    /\ fn.op = "errors" /\ fn.phase = "args"
    /\ fn' = [fn EXCEPT !.phase = "done", !.result = FieldErrors(fn.errors, fn.path)]
    /\ UNCHANGED formVars

NextFieldErrors == CallFieldErrors

SpecFieldErrors == InitFieldErrors /\ [][NextFieldErrors]_vars

(***************************************************************************)
(* A form with an array field, changed through useArrayField: each         *)
(* operation is baseField.setValue(update), that is setState(path, update) *)
(* with the update function applied to the array now at path, its result   *)
(* being a new array.                                                      *)
(***************************************************************************)
ArrayFieldOps == ArrayOps \cup {"move"}

\* the elements of the array v refers to
ElemsOf(h, v) == [k \in 1..h[v.n].len |-> Prop(h[v.n], IdxSeg(k - 1))]

\* the array literal with these scalar elements
ArrayLit(elems) == LitArr([k \in DOMAIN elems |-> [t |-> elems[k].t, n |-> elems[k].n,
                                                      f |-> NoFields]])

FieldArrayUpdate(name, prev, i, j, item) ==
    IF name = "move" THEN MoveUpdate(prev, i, j) ELSE ArrayUpdate(name, prev, i, j, item)

ArrayFieldOp(path, name, i, j, item) ==
    LET prev == get(heap, state, path)
    IN /\ SetStateCall(name, path,
                       UpdateLit(ArrayLit(FieldArrayUpdate(name, ElemsOf(heap, prev), i, j, item))))
       /\ UNCHANGED <<initialState, undoLimit, errors, initialTree, isSubmitting, submits, fieldMetas, fn>>

ArrayFieldInitialStates ==
    { LitObj("a" :> LitArr(<<LitNum(1), LitNum(2)>>)),
      LitObj("a" :> LitArr(<<LitNum(0)>>)) }

\* the array at a still has room for one more element
CanGrow == Len(ElemsOf(heap, get(heap, state, <<"a">>))) < Len(Digits)

InRange(i) == i < Len(ElemsOf(heap, get(heap, state, <<"a">>)))

InitArrayField ==
    \E lit \in ArrayFieldInitialStates, limit \in 1..MaxUndoLimit : Created(lit, limit)

NextArrayField ==
    \/ \E name \in ArrayFieldOps, i, j \in 0..(Len(Digits) - 1), item \in {Num(0), Num(3)} :
          /\ CanCall(MaxOpsArrayField, MaxInFlightHistory)
          /\ name \in {"push", "insert"} => CanGrow
          /\ name \in {"push", "empty"} => (i = 0 /\ j = 0)
          /\ name \in {"remove", "replace", "swap", "move"} => InRange(i)
          /\ name \in {"swap", "move"} => InRange(j)
          /\ name \in {"remove", "replace", "insert"} => (j = 0 /\ i <= Len(ElemsOf(heap, get(heap, state, <<"a">>))))
          /\ ArrayFieldOp(<<"a">>, name, i, j, item)
    \/ CanCall(MaxOpsArrayField, MaxInFlightHistory) /\ Undo(1)
    \/ CanCall(MaxOpsArrayField, MaxInFlightHistory) /\ Redo(1)
    \/ \E i \in DOMAIN inflight : ResolveValidation(i)

SpecArrayField == InitArrayField /\ [][NextArrayField]_vars

(***************************************************************************)
(* The form edited, navigated and submitted: whole-state writes (some of   *)
(* them of the value the state already has), undo and redo of several      *)
(* steps, and submit() calls, with validations pending between them.       *)
(***************************************************************************)
ValidateUpdates == { UpdateLit(LitNum(0)), UpdateLit(LitNum(MinValid)) }

InitValidate == \E limit \in 1..MaxUndoLimit : Created(LitNum(0), limit)

NextValidate ==
    \/ \E update \in ValidateUpdates :
          CanCall(MaxOpsValidate, MaxInFlight) /\ SetState(<<"">>, update)
    \/ \E steps \in 0..MaxSteps : CanCall(MaxOpsValidate, MaxInFlight) /\ Undo(steps)
    \/ \E steps \in 0..MaxSteps : CanCall(MaxOpsValidate, MaxInFlight) /\ Redo(steps)
    \/ CanCall(MaxOpsValidate, MaxInFlight) /\ Submit
    \/ \E i \in DOMAIN inflight : ResolveValidation(i)

SpecValidate == InitValidate /\ [][NextValidate]_vars

(***************************************************************************)
(* An array field pushed to several times in a row, no call waiting for    *)
(* the validations the calls before it started.  fn is the caller's own    *)
(* record: the array it began with and the items it has pushed, in order.  *)
(***************************************************************************)
PushInitial == <<Num(1)>>

PushItems == {Num(0), Num(3)}

InitPush ==
    \E limit \in 1..MaxUndoLimit :
        Created(LitObj("a" :> ArrayLit(PushInitial)), limit)

\* useArrayField("a").push(item)
Push(item) ==
    LET prev == get(heap, state, <<"a">>)
    IN /\ fn' = [op |-> "pushes",
                 items |-> (IF fn.op = "pushes" THEN fn.items ELSE <<>>) \o <<item>>]
       /\ SetStateCall("push", <<"a">>,
                       UpdateLit(ArrayLit(FieldArrayUpdate("push", ElemsOf(heap, prev), 0, 0, item))))
       /\ UNCHANGED <<initialState, undoLimit, errors, initialTree, isSubmitting, submits,
                    fieldMetas>>

NextPush ==
    \/ \E item \in PushItems : CanCall(MaxPushes, MaxInFlightPush) /\ CanGrow /\ Push(item)
    \/ \E i \in DOMAIN inflight : ResolveValidation(i)

SpecPush == InitPush /\ [][NextPush]_vars

(***************************************************************************)
(* isEqual called on its own: two values (literals, or twice the same      *)
(* value) are drawn at the start, then isEqual is applied both ways round. *)
(***************************************************************************)
EqualValues ==
    { LitNum(1), LitNum(2), LitStr(1), LitNull, LitUndef,
      LitArr(<<>>), LitObj(NoFields),
      LitArr(<<LitNum(1)>>), LitObj("0" :> LitNum(1)),
      LitArr(<<LitNum(1), LitNum(2)>>), LitArr(<<LitNum(2), LitNum(1)>>),
      LitArr(<<LitUndef>>), LitArr(<<LitNull>>),
      LitObj("a" :> LitNum(1)), LitObj("a" :> LitStr(1)),
      LitObj("a" :> LitNum(1) @@ "b" :> LitNum(2)), LitObj("b" :> LitNum(2) @@ "a" :> LitNum(1)),
      LitObj("a" :> LitNum(2) @@ "b" :> LitNum(1)),
      LitObj("a" :> LitUndef), LitObj("b" :> LitUndef),
      LitObj("a" :> LitArr(<<LitNum(1)>>)), LitObj("a" :> LitObj("0" :> LitNum(1))),
      LitArr(<<LitObj("a" :> LitNum(1))>>), LitArr(<<LitObj("a" :> LitNum(2))>>) }

InitEqual ==
    /\ NoForm
    /\ \E x \in EqualValues, y \in EqualValues, same \in BOOLEAN :
          LET a == Alloc(<<>>, x)
              b == Alloc(a.heap, y)
          IN fn = [op |-> "isEqual", phase |-> "args", heap |-> b.heap, a |-> a.value,
                   b |-> IF same THEN a.value ELSE b.value, result |-> FALSE,
                   reverse |-> FALSE]

\* isEqual(a, b) and isEqual(b, a)
CallIsEqual ==
    /\ fn.op = "isEqual" /\ fn.phase = "args"
    /\ fn' = [fn EXCEPT !.phase = "done", !.result = isEqual(fn.heap, fn.a, fn.b),
                        !.reverse = isEqual(fn.heap, fn.b, fn.a)]
    /\ UNCHANGED formVars

NextEqual == CallIsEqual

SpecEqual == InitEqual /\ [][NextEqual]_vars

(***************************************************************************)
(* helpers.tsx: createUndoRedoManager.  fn holds the manager's closure:    *)
(* state.history, state.currentIndex and maxHistorySize, with the call     *)
(* made last and the number of calls.                                      *)
(***************************************************************************)
\* a history that keeps the snapshots after the current index
ManagerHistoryKept(history, currentIndex, newState, max) ==
    SliceFrom(Append(history, newState), -max)

\* [...state.history.slice(0, state.currentIndex + 1), newState].slice(-maxHistorySize)
ManagerHistoryAfterSet(history, currentIndex, newState, max) ==
    SliceFrom(Append(Slice(history, 0, currentIndex + 1), newState), -max)

ManagerValues == 1..2

InitManager ==
    /\ NoForm
    /\ \E max \in 1..MaxHistorySize :
          fn = [op |-> "manager", history |-> <<0>>, currentIndex |-> 0,
                maxHistorySize |-> max, last |-> "create", arg |-> 0, calls |-> 0]

\* manager.setState(newState)
ManagerSetState(newState) ==
    /\ fn.op = "manager" /\ fn.calls < MaxOpsManager
    /\ fn' = [fn EXCEPT
                !.history = ManagerHistoryAfterSet(fn.history, fn.currentIndex, newState,
                                                   fn.maxHistorySize),
                !.currentIndex = Min(fn.currentIndex + 1, fn.maxHistorySize - 1),
                !.last = "setState", !.arg = newState, !.calls = @ + 1]
    /\ UNCHANGED formVars

\* manager.undo(steps)
ManagerUndo(steps) ==
    /\ fn.op = "manager" /\ fn.calls < MaxOpsManager
    /\ fn' = [fn EXCEPT !.currentIndex = Max(0, fn.currentIndex - steps),
                        !.last = "undo", !.arg = steps, !.calls = @ + 1]
    /\ UNCHANGED formVars

\* manager.redo(steps)
ManagerRedo(steps) ==
    /\ fn.op = "manager" /\ fn.calls < MaxOpsManager
    /\ fn' = [fn EXCEPT !.currentIndex = Min(Len(fn.history) - 1, fn.currentIndex + steps),
                        !.last = "redo", !.arg = steps, !.calls = @ + 1]
    /\ UNCHANGED formVars

NextManager ==
    \/ \E newState \in ManagerValues : ManagerSetState(newState)
    \/ \E steps \in 0..MaxSteps : ManagerUndo(steps)
    \/ \E steps \in 0..MaxSteps : ManagerRedo(steps)

SpecManager == InitManager /\ [][NextManager]_vars

(***************************************************************************)
(* part_003: createUndoRedoManager with a debounced history push.  fn      *)
(* holds the closure: history, index, maxHistorySize and the timers that   *)
(* are set and have not fired (the code keeps a handle to the last one),   *)
(* with the call made last, the number of calls, the values set since a    *)
(* timer last fired (burst) and the values whose timer was cleared         *)
(* (cleared).  Each setState is given a value of its own.                  *)
(***************************************************************************)
\* timers that a setState adds to without clearing any
TimersNotCleared(timers, newState) == Append(timers, newState)

\* clearTimeout(timer); timer = setTimeout(() => ..., historyPushDebounce)
TimersAfterSet(timers, newState) == <<newState>>

InitDebounced ==
    /\ NoForm
    /\ \E max \in 1..MaxHistorySize :
          fn = [op |-> "debounced", history |-> <<0>>, index |-> 0, maxHistorySize |-> max,
                timers |-> <<>>, last |-> "create", calls |-> 0, burst |-> <<>>,
                cleared |-> {}]

\* manager.setState(newState)
DebouncedSetState ==
    /\ fn.op = "debounced" /\ fn.calls < MaxOpsDebounced
    /\ LET newState == fn.calls + 1
       IN fn' = [fn EXCEPT !.timers = TimersAfterSet(fn.timers, newState),
                           !.last = "setState", !.calls = @ + 1,
                           !.burst = Append(@, newState),
                           !.cleared = @ \cup {fn.timers[i] : i \in DOMAIN fn.timers}]
    /\ UNCHANGED formVars

\* the callback given to setTimeout runs
TimerFires(i) ==
    /\ fn.op = "debounced"
    /\ i \in DOMAIN fn.timers
    /\ fn' = [fn EXCEPT
                !.history = ManagerHistoryAfterSet(fn.history, fn.index, fn.timers[i],
                                                   fn.maxHistorySize),
                !.index = Min(fn.index + 1, fn.maxHistorySize - 1),
                !.timers = RemoveAt(fn.timers, i),
                !.last = "timer", !.burst = <<>>]
    /\ UNCHANGED formVars

\* manager.undo(steps)
DebouncedUndo(steps) ==
    /\ fn.op = "debounced" /\ fn.calls < MaxOpsDebounced
    /\ fn' = [fn EXCEPT !.index = Max(fn.index - steps, 0),
                        !.last = "undo", !.calls = @ + 1]
    /\ UNCHANGED formVars

\* manager.redo(steps)
DebouncedRedo(steps) ==
    /\ fn.op = "debounced" /\ fn.calls < MaxOpsDebounced
    /\ fn' = [fn EXCEPT !.index = Min(fn.index + steps, Len(fn.history) - 1),
                        !.last = "redo", !.calls = @ + 1]
    /\ UNCHANGED formVars

NextDebounced ==
    \/ DebouncedSetState
    \/ \E i \in DOMAIN fn.timers : TimerFires(i)
    \/ \E steps \in 1..MaxSteps : DebouncedUndo(steps)
    \/ \E steps \in 1..MaxSteps : DebouncedRedo(steps)

SpecDebounced == InitDebounced /\ [][NextDebounced]_vars

(***************************************************************************)
(* The form with field metadata written between the other calls.           *)
(***************************************************************************)
MetaPaths == { <<"a">>, <<"b">> }

MetaUpdates ==
    { [kind |-> "meta", meta |-> [defaultFieldMetaState EXCEPT !.dirty = TRUE]],
      [kind |-> "touch", meta |-> defaultFieldMetaState],
      [kind |-> "hide", meta |-> defaultFieldMetaState] }

InitMeta == Created(LitNum(0), 1)

NextMeta ==
    \/ \E path \in MetaPaths, update \in MetaUpdates :
          CanCall(MaxOpsMeta, MaxInFlight) /\ SetFieldMeta(path, update)
    \/ \E update \in ValidateUpdates :
          CanCall(MaxOpsMeta, MaxInFlight) /\ SetState(<<"">>, update)
    \/ CanCall(MaxOpsMeta, MaxInFlight) /\ Undo(1)
    \/ CanCall(MaxOpsMeta, MaxInFlight) /\ Redo(1)
    \/ CanCall(MaxOpsMeta, MaxInFlight) /\ Reset
    \/ CanCall(MaxOpsMeta, MaxInFlight) /\ Submit
    \/ \E i \in DOMAIN inflight : ResolveValidation(i)

SpecMeta == InitMeta /\ [][NextMeta]_vars

(***************************************************************************)
(* Properties.                                                             *)
(***************************************************************************)
Last(s) == s[Len(s)]

\* the error list that validating the state st yields
ErrorsOf(h, st) ==
    IF SafeParse(h, st) # <<>> THEN formatZodIssues(SafeParse(h, st)) ELSE <<>>

\* the step is a call on the form, of one of the operations ops
Called(ops) == Len(trace') = Len(trace) + 1 /\ Last(trace').op \in ops

\* C1: a validation result is written to errors() only if no later
\* validation has been started; the result of a validation that resolves
\* while a later one exists is discarded.
C1_StaleResultDiscarded ==
    [][\A i \in DOMAIN inflight :
          (inflight' = RemoveAt(inflight, i) /\ issued' = issued
             /\ inflight[i].token < issued) => errors' = errors]_vars

\* C2: whenever no validation is in flight, errors() is the mapped issue
\* list of validating the current state().
C2_ErrorsMatchStateWhenIdle ==
    inflight = <<>> => errors = ErrorsOf(heap, state)

\* C3: neither stack is ever longer than undoLimit.
C3_StacksWithinLimit ==
    Len(undoStack) <= undoLimit /\ Len(redoStack) <= undoLimit

\* a tree as a comparison that ignores properties holding undefined sees it
RECURSIVE Loose(_)
Loose(tr) ==
    IF tr.t = "obj"
    THEN [t |-> "obj", n |-> 0,
          f |-> [s \in {k \in DOMAIN tr.f : tr.f[k].t # "undef"} |-> Loose(tr.f[s])]]
    ELSE IF tr.t = "arr"
    THEN [t |-> "arr", n |-> tr.n, f |-> [s \in DOMAIN tr.f |-> Loose(tr.f[s])]]
    ELSE tr

\* the calls trace[from..to] are setState calls that were accepted and applied
AcceptedSets(from, to) ==
    \A k \in from..to :
        trace[k].op = "setState" /\ trace[k].accepted /\ trace[k].err = "none"

\* C4: after n <= undoLimit accepted setState calls, undo(n) returns the
\* state to the one before those calls, and a following redo(n) to the one
\* after them (compared leniently: a property holding undefined counts as
\* absent).
C4_RoundTrip ==
    \A n \in 1..undoLimit :
        /\ \A u \in (n + 1)..Len(trace) :
              ( /\ AcceptedSets(u - n, u - 1)
                /\ trace[u].op = "undo" /\ trace[u].steps = n )
              => Loose(trace[u].after) = Loose(trace[u - n].before)
        /\ \A r \in (n + 2)..Len(trace) :
              ( /\ AcceptedSets(r - n - 1, r - 2)
                /\ trace[r - 1].op = "undo" /\ trace[r - 1].steps = n
                /\ trace[r].op = "redo" /\ trace[r].steps = n )
              => Loose(trace[r].after) = Loose(trace[r - 2].after)

\* C5: props.initialState keeps the structure it had when createForm ran.
C5_InitialStateUntouched ==
    Tree(heap, initialState) = initialTree

\* C7: a setState that fails with the invalid-path error leaves state(),
\* both stacks and errors() as they were and starts no validation.
C7_FailedSetStateChangesNothing ==
    [][(Called({"setState"}) /\ Last(trace').err = "InvalidPath")
          => /\ Tree(heap', state') = Tree(heap, state)
             /\ undoStack' = undoStack
             /\ redoStack' = redoStack
             /\ errors' = errors
             /\ inflight' = inflight]_vars

\* C6: set never changes the root it is given, nor any container reachable
\* from it: after the call the root has the structure it had before.
C6_SetLeavesRootUntouched ==
    (fn.op = "set" /\ fn.phase = "done")
        => Tree(fn.after, fn.root) = Tree(fn.heap, fn.root)

\* the entries of a stack
Entries(stack) == {stack[i] : i \in DOMAIN stack}

\* C8: undo and redo only move entries between the stacks: the two lengths
\* add up to the same number after the call, and no new entry appears.
C8_UndoRedoOnlyMoveEntries ==
    [][Called({"undo", "redo"})
          => /\ Len(undoStack') + Len(redoStack') = Len(undoStack) + Len(redoStack)
             /\ Entries(undoStack') \cup Entries(redoStack')
                   \subseteq Entries(undoStack) \cup Entries(redoStack)]_vars

\* the calls trace[k], trace[k+1], ... are the operations ops, in that order,
\* each of them taking effect (a setState accepted, an undo or redo with
\* entries to apply)
Ran(k, ops) ==
    /\ k >= 1 /\ k + Len(ops) - 1 <= Len(trace)
    /\ \A i \in DOMAIN ops : trace[k + i - 1].op = ops[i]

Effective(k) == trace[k].accepted /\ trace[k].err = "none"

\* C9: once a setState has been accepted the redo stack is empty, canRedo()
\* is false and a redo() then leaves the state as it is; and in a run
\* setState a; setState b; undo(); setState c; undo(); redo() the undo
\* brings back a and the redo brings back c.
C9_SetStateClearsRedo ==
    /\ (trace # <<>> /\ Last(trace).op = "setState" /\ Effective(Len(trace)))
          => (redoStack = <<>> /\ ~canRedo(1))
    /\ \A k \in DOMAIN trace :
          (Ran(k, <<"setState", "redo">>) /\ Effective(k))
              => trace[k + 1].after = trace[k].after
    /\ \A k \in DOMAIN trace :
          ( /\ Ran(k, <<"setState", "setState", "undo", "setState", "undo", "redo">>)
            /\ Effective(k) /\ Effective(k + 1) /\ Effective(k + 3) )
          => /\ trace[k + 4].after = trace[k].after
             /\ trace[k + 5].after = trace[k + 3].after

\* the run of C9 has happened, with b and c different values
C9_Witness ==
    \E k \in DOMAIN trace :
        /\ Ran(k, <<"setState", "setState", "undo", "setState", "undo", "redo">>)
        /\ Effective(k) /\ Effective(k + 1) /\ Effective(k + 3)
        /\ trace[k + 1].after # trace[k + 3].after
        /\ trace[k + 5].after = trace[k + 3].after
        /\ redoStack = <<>>

Repeat(op, n) == [i \in 1..n |-> op]

\* the calls trace[k..] are sets accepted setState calls followed by undos
\* calls of undo()
SetsThenUndos(k, sets, undos) ==
    /\ Ran(k, Repeat("setState", sets) \o Repeat("undo", undos))
    /\ \A i \in 0..(sets - 1) : Effective(k + i)

\* the call trace[k] changed the state
Changed(k) == trace[k].after # trace[k].before

C12_UndoRedoTakeUpToSteps ==
    [][/\ Called({"undo"})
            => LET n == Min(Last(trace').steps, Len(undoStack))
               IN /\ undoStack' = SubSeq(undoStack, 1, Len(undoStack) - n)
                  /\ thrown' = "none"
                  /\ undoStack = <<>>
                        => (state' = state /\ redoStack' = redoStack)
       /\ Called({"redo"})
            => LET n == Min(Last(trace').steps, Len(redoStack))
               IN /\ redoStack' = SubSeq(redoStack, n + 1, Len(redoStack))
                  /\ thrown' = "none"
                  /\ redoStack = <<>>
                        => (state' = state /\ undoStack' = undoStack)]_vars

\* the value setState(path, update) would write is structurally equal to the
\* value now at path
WritesEqualValue(path, update) ==
    LET currentValue == IF TrimIsEmpty(path) THEN state ELSE get(heap, state, path)
        u == getUpdatedValue(heap, currentValue, update)
    IN isEqual(u.heap, u.value, currentValue)

\* C13: a setState whose value is structurally equal to the current value
\* at the path pushes no history entry and starts no validation.
C13_EqualWriteSuppressed ==
    [][\A path \in Paths, update \in Updates :
          (SetState(path, update) /\ WritesEqualValue(path, update))
              => /\ undoStack' = undoStack
                 /\ redoStack' = redoStack
                 /\ inflight' = inflight
                 /\ issued' = issued]_vars

\* the submit() call j has just gone on from its validation
Validated(j) ==
    /\ j \in DOMAIN submits
    /\ submits[j].pos = "validating" /\ submits'[j].pos # "validating"

C15_SubmittingWhileHandlerPending ==
    [][/\ (\E j \in DOMAIN submits' : submits'[j].pos = "handler") => isSubmitting'
       /\ \A j \in DOMAIN submits :
             (submits[j].pos # "done" /\ submits'[j].pos = "done" /\ submits'[j].calls = 1)
                 => ~isSubmitting']_vars

\* C16: isValidating() is true exactly when a validation is in flight.
C16_ValidatingWhileInFlight ==
    isValidating <=> inflight # <<>>

\* the value at path in the initial state as createForm received it
InitialAt(path) ==
    LET r == Alloc(<<>>, initialTree)
    IN Tree(r.heap, get(r.heap, r.value, path))

\* C17: wasModified() is true exactly when the state differs in structure
\* from the initial state as createForm received it, and a field's
\* wasModified() exactly when the value at its path differs from the
\* initial value at that path.
C17_WasModifiedIffDiffers ==
    /\ wasModified <=> (Tree(heap, state) # initialTree)
    /\ \A path \in Paths :
          FieldWasModified(path) <=> (Tree(heap, get(heap, state, path)) # InitialAt(path))

\* C18: after reset() the state has the structure the initial state had
\* when createForm received it.
C18_ResetRestoresInitial ==
    [][Called({"reset"}) => Tree(heap', state') = initialTree]_vars

\* C19: after useField(path).reset() the value at path is the initial
\* value at path.
C19_FieldResetRestoresInitial ==
    [][Called({"fieldReset"})
          => Tree(heap', get(heap', state', Last(trace').path))
                = InitialAt(Last(trace').path)]_vars

\* C20: move(from, to) with both indices in range yields an array of the
\* same length, with the element that was at from now at to and the other
\* elements in the order they had.
C20_MoveKeepsElements ==
    (fn.op = "move" /\ fn.phase = "done")
        => /\ Len(fn.result) = Len(fn.prev)
           /\ fn.result[fn.to + 1] = fn.prev[fn.from + 1]
           /\ RemoveAt(fn.result, fn.to + 1) = RemoveAt(fn.prev, fn.from + 1)

\* the arrays a and b agree at every index but those in the set but
SameExcept(a, b, but) ==
    Len(a) = Len(b) /\ \A k \in DOMAIN a : (k - 1) \in but \/ a[k] = b[k]

\* C21: with indices in range, push appends the item, remove deletes
\* element i and nothing else, insert puts the item at i and shifts the
\* later elements, replace overwrites element i only, swap exchanges
\* elements a and b only (twice: the array as it was), empty yields [].
C21_ArrayOpsMatchReference ==
    (fn.op = "array" /\ fn.phase # "args") =>
        LET prev == fn.prev
            res == fn.result
            n == Len(fn.prev)
        IN /\ fn.name = "push"
                => (Len(res) = n + 1 /\ res[n + 1] = fn.item /\ SubSeq(res, 1, n) = prev)
           /\ fn.name = "remove"
                => /\ Len(res) = n - 1
                   /\ \A k \in 1..(n - 1) : res[k] = IF k <= fn.i THEN prev[k] ELSE prev[k + 1]
           /\ fn.name = "insert"
                => /\ Len(res) = n + 1
                   /\ res[fn.i + 1] = fn.item
                   /\ \A k \in 1..n : prev[k] = IF k <= fn.i THEN res[k] ELSE res[k + 1]
           /\ fn.name = "replace"
                => (res[fn.i + 1] = fn.item /\ SameExcept(res, prev, {fn.i}))
           /\ fn.name = "swap"
                => /\ res[fn.i + 1] = prev[fn.j + 1]
                   /\ res[fn.j + 1] = prev[fn.i + 1]
                   /\ SameExcept(res, prev, {fn.i, fn.j})
                   /\ fn.phase = "twice" => fn.again = prev
           /\ fn.name = "empty" => res = <<>>

\* two different elements have been swapped and swapped back
C21_Witness ==
    /\ fn.op = "array" /\ fn.name = "swap" /\ fn.phase = "twice"
    /\ fn.i # fn.j
    /\ fn.prev[fn.i + 1] # fn.prev[fn.j + 1]
    /\ fn.result # fn.prev
    /\ fn.again = fn.prev

\* C22: an array operation that changes the array records one history
\* entry for the field's path (holding the array as it was), clears the
\* redo stack and starts one validation; an undo() right after it brings
\* the array back.
C22_ArrayOpsThroughSetState ==
    [][/\ (Called(ArrayFieldOps) /\ Tree(heap', state') # Tree(heap, state))
          => (LET call == Last(trace')
                  entry == Last(undoStack')
              IN /\ undoStack' # <<>>
                 /\ entry.path = call.path
                 /\ Tree(heap', entry.prevValue) = Tree(heap, get(heap, state, call.path))
                 /\ Tree(heap', entry.value) = Tree(heap', get(heap', state', call.path))
                 /\ \/ /\ Len(undoStack') = Len(undoStack) + 1
                       /\ SubSeq(undoStack', 1, Len(undoStack)) = undoStack
                    \/ /\ Len(undoStack') = undoLimit
                       /\ SubSeq(undoStack', 1, undoLimit - 1) = Tail(undoStack)
                 /\ redoStack' = <<>>
                 /\ issued' = issued + 1
                 /\ Len(inflight') = Len(inflight) + 1
                 /\ thrown' = "none")
       /\ (Called({"undo"}) /\ Len(trace) >= 1 /\ Last(trace).op \in ArrayFieldOps)
          => Tree(heap', state') = Last(trace).before]_vars

\* an array operation has changed the array after an undo left something
\* to redo, and an undo() has then brought the array back
C22_Witness ==
    /\ Len(trace) = 3
    /\ trace[1].op = "undo" /\ trace[1].redoBefore = 0 /\ ~trace[1].accepted
    /\ trace[2].op \in ArrayFieldOps /\ trace[2].after # trace[2].before
    /\ trace[3].op = "undo" /\ trace[3].after = trace[2].before
    /\ Len(redoStack) = 1

\* the value a plain property walk from v along keys arrives at
RECURSIVE At(_, _, _)
At(h, v, keys) ==
    IF keys = <<>> THEN v
    ELSE IF v.t = "ref" THEN At(h, Prop(h[v.n], Head(keys)), Tail(keys))
    ELSE Undef

IsContainer(h, v, kind) == v.t = "ref" /\ h[v.n].kind = kind

\* a path that is not empty and has no empty segment
ValidPath(path) == \A i \in DOMAIN path : path[i] # ""

SetDone == fn.op = "set" /\ fn.phase = "done"

\* C23: for a mapping or sequence root and a valid path, reading path in
\* the root that set returns gives the value written, whatever the
\* intermediates were (a path refused as a non-numeric key on a sequence
\* set aside).
C23_ReadAfterWrite ==
    (SetDone /\ fn.root.t = "ref" /\ ValidPath(fn.path) /\ fn.err # "InvalidPath")
        => /\ fn.err = "none"
           /\ get(fn.after, fn.result, fn.path) = fn.value

C25_NonNumericOnArrayThrows ==
    (SetDone /\ fn.root.t = "ref" /\ ValidPath(fn.path)
       /\ \E i \in DOMAIN fn.path :
             /\ NumberIsNaN(fn.path[i])
             /\ IsContainer(fn.heap, At(fn.heap, fn.root, SubSeq(fn.path, 1, i - 1)), "arr"))
        => fn.err = "InvalidPath"

C27_GetUndefinedWhenUnresolved ==
    (fn.op = "get" /\ fn.phase = "done" /\ fn.path # <<"">>)
        => /\ (\E i \in DOMAIN fn.path :
                  LET parent == At(fn.heap, fn.root, SubSeq(fn.path, 1, i - 1))
                  IN parent.t # "ref" \/ ~HasKey(fn.heap[parent.n], fn.path[i]))
                => fn.result = Undef
           /\ fn.root.t = "ref" => fn.result # fn.root

\* the wrappers around a schema, from the outermost inwards
RECURSIVE Modifiers(_)
Modifiers(schema) ==
    IF schema.k = "ZodOptional" THEN {"optional"} \cup Modifiers(schema.f["innerType"])
    ELSE IF schema.k = "ZodNullable" THEN {"nullable"} \cup Modifiers(schema.f["innerType"])
    ELSE {}

RequiredDone == fn.op = "isFieldRequired" /\ fn.phase = "done"

\* C28: for a path that resolves, isFieldRequired returns false exactly
\* when one of the modifiers wrapped around the resolved schema, at any
\* depth, is among the variants; with no variants it returns true.
C28_RequiredUnlessWrapped ==
    (RequiredDone /\ fn.err = "none")
        => /\ fn.result = (Modifiers(fn.resolved) \cap fn.variant = {})
           /\ fn.variant = {} => fn.result

\* what the walk of the schema along parts is to do: arrive at a schema
\* ("ok"), throw ("throws"), or meet a schema that is neither a mapping,
\* a sequence nor a scalar ("other")
RECURSIVE Walked(_, _)
Walked(schema, parts) ==
    IF parts = <<>> THEN [r |-> "ok", schema |-> schema]
    ELSE IF schema.k = "ZodObject"
    THEN IF Head(parts) \in DOMAIN schema.f THEN Walked(schema.f[Head(parts)], Tail(parts))
         ELSE [r |-> "throws", schema |-> schema]
    ELSE IF schema.k = "ZodArray"
    THEN IF ~ParseIntIsNaN(Head(parts)) THEN Walked(schema.f["element"], Tail(parts))
         ELSE [r |-> "throws", schema |-> schema]
    ELSE IF schema.k = "ZodString" THEN [r |-> "throws", schema |-> schema]
    ELSE [r |-> "other", schema |-> schema]

Belongs(epath, path) ==
    Len(epath) >= Len(path) /\ SubSeq(epath, 1, Len(path)) = path

\* C30: useField(path).errors() is the form's errors() restricted to the
\* errors of the field and of its descendants, in the same order.
C30_FieldErrorsAreTheFieldsOwn ==
    (fn.op = "errors" /\ fn.phase = "done")
        => fn.result = SelectSeq(fn.errors, LAMBDA e : Belongs(e.path, fn.path))

\* C31: one validation is started when the form is created, one by each
\* setState that changes the state, one by each undo() or redo() that
\* moves an entry and one by each submit(); a setState that is suppressed
\* and an undo() or redo() on an empty stack start none, nor does any step
\* that is not a call.
C31_ValidationStartedOncePerChange ==
    /\ (Len(trace) = 0 => issued = 1)
    /\ [][LET started == issued' - issued
              call == Last(trace')
          IN /\ ~Called({"setState", "undo", "redo", "submit"}) => started = 0
             /\ Called({"setState"})
                  => /\ (Tree(heap', state') # Tree(heap, state)) => started = 1
                     /\ (undoStack' = undoStack /\ state' = state) => started = 0
             /\ Called({"undo", "redo"})
                  => /\ (Len(undoStack') # Len(undoStack)) => started = 1
                     /\ (call.op = "undo" /\ undoStack = <<>>) => started = 0
                     /\ (call.op = "redo" /\ redoStack = <<>>) => started = 0
             /\ Called({"submit"}) => started = 1
             /\ started = Len(inflight') - Len(inflight)
                    + (IF Called({"setState", "undo", "redo", "submit"}) THEN 0 ELSE 1)]_vars

\* a suppressed setState, a setState that changed the state, an undo that
\* moved its entry and a submit() have been called: four validations have
\* been started, the one of createForm included
C31_Witness ==
    /\ Len(trace) = 4
    /\ trace[1].op = "setState" /\ ~trace[1].accepted
    /\ trace[2].op = "setState" /\ trace[2].after # trace[2].before
    /\ trace[3].op = "undo" /\ trace[3].undoBefore = 1 /\ Len(undoStack) = 0
    /\ trace[4].op = "submit"
    /\ issued = 4

\* C32: when a push returns the state holds its item: after k pushes in a
\* row, however many validations are still pending, the array holds what it
\* began with followed by the k items in the order of the calls.
C32_PushesAppliedInCallOrder ==
    /\ (fn.op = "none") => ElemsOf(heap, get(heap, state, <<"a">>)) = PushInitial
    /\ (fn.op = "pushes")
         => /\ Len(fn.items) = Len(trace)
            /\ ElemsOf(heap, get(heap, state, <<"a">>)) = PushInitial \o fn.items

\* three pushes have been made with no validation resolved in between: the
\* validation of createForm and those of the three pushes are all pending
C32_Witness ==
    /\ fn.op = "pushes"
    /\ fn.items = <<Num(3), Num(0), Num(3)>>
    /\ Len(inflight) = 4
    /\ ElemsOf(heap, get(heap, state, <<"a">>)) = <<Num(1), Num(3), Num(0), Num(3)>>

\* C33: isEqual gives the same answer both ways round, and the answer is
\* whether the two values have the same structure: the same kind, and for
\* mappings the same keys with equal values, for sequences the same length
\* with equal elements, for scalars the same value.
C33_IsEqualStructuralAndSymmetric ==
    (fn.op = "isEqual" /\ fn.phase = "done")
        => /\ fn.result = fn.reverse
           /\ fn.result = (Tree(fn.heap, fn.a) = Tree(fn.heap, fn.b))

\* two distinct mappings with the same keys and values have been found
\* equal, both ways round
C33_Witness ==
    /\ fn.op = "isEqual" /\ fn.phase = "done"
    /\ fn.a # fn.b
    /\ Tree(fn.heap, fn.a) = LitObj("a" :> LitNum(1) @@ "b" :> LitNum(2))
    /\ Tree(fn.heap, fn.b) = Tree(fn.heap, fn.a)
    /\ fn.result /\ fn.reverse

\* C34: in the undo/redo manager the current index always lies within the
\* history and the history never holds more snapshots than maxHistorySize;
\* a setState leaves its snapshot as the last one and the current one, the
\* snapshots before it being those up to the index that was current.
C34_ManagerIndexWithinHistory ==
    /\ (fn.op = "manager")
         => /\ 0 <= fn.currentIndex
            /\ fn.currentIndex <= Len(fn.history) - 1
            /\ Len(fn.history) <= fn.maxHistorySize
    /\ [][(fn'.op = "manager" /\ fn'.last = "setState" /\ fn'.calls = fn.calls + 1)
            => /\ fn'.currentIndex = Len(fn'.history) - 1
               /\ fn'.history[Len(fn'.history)] = fn'.arg
               /\ LET kept == Len(fn'.history) - 1
                      upto == SubSeq(fn.history, 1, fn.currentIndex + 1)
                  IN SubSeq(fn'.history, 1, kept) = SubSeq(upto, Len(upto) - kept + 1, Len(upto))]_vars

\* a setState made after an undo has discarded the snapshot that was ahead
\* of the current one, in a history that is at its limit of three
C34_Witness ==
    /\ fn.op = "manager" /\ fn.maxHistorySize = 3
    /\ fn.calls = 4 /\ fn.last = "setState"
    /\ fn.history = <<0, 1, 1>>
    /\ fn.currentIndex = 2

\* the values a sequence holds
Range(s) == {s[i] : i \in DOMAIN s}

\* C35: in the debounced manager, an undo() or redo() called while the
\* history capture of a setState is pending first flushes it: when the
\* call returns no capture is pending and the value set is in the history.
C35_PendingCaptureFlushedBeforeUndo ==
    [][(fn'.op = "debounced" /\ fn'.last \in {"undo", "redo"} /\ fn'.calls = fn.calls + 1
          /\ fn.timers # <<>>)
          => /\ fn'.timers = <<>>
             /\ \A i \in DOMAIN fn.timers : fn.timers[i] \in Range(fn'.history)]_vars

\* C36: in the debounced manager, when the timer fires after a burst of
\* setState calls, one entry is added to the history after the current
\* one, holding the last value of the burst; a value set earlier in a
\* burst is never in the history, and at most one capture is pending.
C36_BurstGivesOneEntry ==
    /\ (fn.op = "debounced")
         => /\ Len(fn.timers) <= 1
            /\ fn.cleared \cap Range(fn.history) = {}
    /\ [][(fn'.op = "debounced" /\ fn'.last = "timer" /\ fn' # fn)
            => /\ fn.burst # <<>>
               /\ fn'.history[Len(fn'.history)] = fn.burst[Len(fn.burst)]
               /\ fn'.index = Len(fn'.history) - 1
               /\ Len(fn'.history) = Min(fn.index + 2, fn.maxHistorySize)
               /\ Range(fn'.history) \subseteq Range(fn.history) \cup {fn.burst[Len(fn.burst)]}]_vars

\* the timer has fired after a burst of three setState calls: the history
\* holds the initial value and the third value only
C36_Witness ==
    /\ fn.op = "debounced" /\ fn.last = "timer"
    /\ fn.calls = 3
    /\ fn.cleared = {1, 2}
    /\ fn.history = <<0, 3>>
    /\ fn.index = 1

\* C37: undo() and redo() never throw, whatever calls were made before,
\* failed setState calls included.
C37_UndoRedoNeverThrow ==
    [][Called({"undo", "redo"}) => thrown' = "none"]_vars

\* the submit() calls made, in order
SubmitCalls == SelectSeq(trace, LAMBDA call : call.op = "submit")

\* C38: what onSubmit is given is the state as it was when its submit()
\* was called, whatever setState, undo or redo made of the state while the
\* validation was pending.
C38_SubmitPassesStateAtCall ==
    \A j \in DOMAIN submits :
        submits[j].calls > 0 => submits[j].passed = SubmitCalls[j].before

\* submit() was called on a valid state, an undo() then took the state
\* back to an invalid one while the validation was pending, and onSubmit
\* was given the valid state
C38_Witness ==
    /\ Len(trace) = 3
    /\ trace[1].op = "setState" /\ trace[2].op = "submit" /\ trace[3].op = "undo"
    /\ trace[3].after # trace[2].before
    /\ Len(submits) = 1 /\ submits[1].calls = 1
    /\ submits[1].passed = trace[2].before
    /\ Tree(heap, state) # submits[1].passed

\* C39: setFieldMeta(path, update) writes the meta of path and nothing
\* else: the state, both stacks, the errors and the meta of every other
\* path stay as they are and no validation is started; no other step
\* changes fieldMetas(); no step removes a meta that has been written.
C39_MetaIndependentOfValues ==
    [][/\ Called({"setFieldMeta"})
            => /\ DOMAIN fieldMetas' = DOMAIN fieldMetas \cup {Last(trace').path}
               /\ \A p \in DOMAIN fieldMetas \ {Last(trace').path} : fieldMetas'[p] = fieldMetas[p]
               /\ UNCHANGED <<heap, state, undoStack, redoStack, errors, inflight, issued>>
       /\ ~Called({"setFieldMeta"}) => fieldMetas' = fieldMetas
       /\ DOMAIN fieldMetas \subseteq DOMAIN fieldMetas']_vars

\* the metas of a and b were written, then a setState changed the state:
\* both metas are as they were written
C39_Witness ==
    /\ Len(trace) = 3
    /\ trace[1].op = "setFieldMeta" /\ trace[1].path = <<"a">>
    /\ trace[2].op = "setFieldMeta" /\ trace[2].path = <<"b">>
    /\ trace[3].op = "setState" /\ trace[3].after # trace[3].before
    /\ DOMAIN fieldMetas = {<<"a">>, <<"b">>}
    /\ fieldMetas[<<"a">>].touched /\ ~fieldMetas[<<"b">>].show

\* the schema under the optional and nullable wrappers of a schema
RECURSIVE Unwrapped(_)
Unwrapped(schema) ==
    IF schema.k \in {"ZodOptional", "ZodNullable"} THEN Unwrapped(schema.f["innerType"])
    ELSE schema

\* C40: when the walk stands at an optional or nullable wrapper around a
\* mapping or sequence schema and a segment is still to be taken,
\* isFieldRequired throws the invalid-path error at the wrapper: it does
\* not go through the wrapper to the schema inside.
C40_WrappedContainerNotTraversed ==
    (RequiredDone /\ fn.path # <<"">>)
        => LET w == Walked(fn.schema, fn.path)
           IN (/\ w.r = "other"
               /\ w.schema.k \in {"ZodOptional", "ZodNullable"}
               /\ Unwrapped(w.schema).k \in {"ZodObject", "ZodArray"})
                  => (fn.err = "NotObjectOrArray" /\ fn.resolved = w.schema)

\* 'a.b' where a is an optional object with a field b: the call threw at
\* the wrapper
C40_Witness ==
    /\ RequiredDone
    /\ fn.schema = ZObject("a" :> ZOptional(ZObject("b" :> ZString)))
    /\ fn.path = <<"a", "b">>
    /\ fn.err = "NotObjectOrArray"
    /\ fn.resolved = ZOptional(ZObject("b" :> ZString))

====
